---------------------------- MODULE Spec2Model ----------------------------
(***************************************************************************)
(* Model of correlate_with_ref.py (class CIR_Correlate): the search for    *)
(* the NULL symbol in every transmission frame of a recording, the         *)
(* correlation of the samples behind it with the phase reference, and the  *)
(* scan over all frames made by plot().                                    *)
(*                                                                         *)
(* Samples are real integers (complex samples with a zero imaginary part), *)
(* so that magnitudes, sums and correlation coefficients are exact.  A     *)
(* value of the CIR is kept as the exact square of the float the code      *)
(* computes (a fraction n/d in lowest terms), or as NaN / Inf where numpy   *)
(* produces those; float rounding is not modelled.                         *)
(*                                                                         *)
(* The program's constants are scaled down, keeping their order relations: *)
(*   N <= T_NULL < T_TF, CORR_BACKOFF <= T_NULL, T_TF - T_NULL is not a    *)
(*   multiple of N, the correlation bank of a frame whose NULL symbol is   *)
(*   found at offset 0 stays inside the frame, and the bank of a frame     *)
(*   whose NULL symbol is found at the last searched offset reaches past   *)
(*   the frame by less than one frame.                                     *)
(***************************************************************************)
EXTENDS Integers, Sequences, FiniteSets

\* T_NULL = 2656 in the source
T_NULL == 2
\* T_TF = 196608 in the source
T_TF == 5
\* N = 20 in the source
N == 2
\* the 50 of "t_null + T_NULL - 50" in the source
CORR_BACKOFF == 1
\* max_component_delay = 1000 in the source
MAX_COMPONENT_DELAY == 2
\* the 2552 of "len(self.phase_ref) != 2552" in the source
PHASE_REF_LEN == 3

\* longest recording over the three-valued alphabet
MaxLen == 7
\* longest recording over the two-valued alphabet
MaxLongLen == 12

Samples == {-1, 0, 2}
LongSamples == {0, 1}

\* the content of phasereference.2048000.fc64.iq: of the expected length, or not
PhaseRefs == { <<1, -1>>, <<1, -1, 1>>, <<1, -1, 1, 1>> }

\* the recordings handed to the constructor
Recordings ==
    UNION { [1..n -> Samples] : n \in 0..MaxLen }
        \cup UNION { [1..n -> LongSamples] : n \in 0..MaxLongLen }

\* plot()'s local cirs while it is not bound: no scan has built a matrix
\* (a value no scan produces: every row of a matrix has MAX_COMPONENT_DELAY values)
NoMatrix == << <<>> >>
\* float nan (0/0) and float inf (x/0, x > 0), as fractions no division yields
NaN == [n |-> 0, d |-> 0]
Inf == [n |-> 1, d |-> 0]

\* channel_out, phase_ref, null_symbol_ixs: the object's fields.
\* pc, ix, num_correlations, rows, cirs: plot()'s position and locals (rows is
\* the list the comprehension is building, cirs the matrix bound to it).
\* warnings: the warnings printed by the running scan.
\* rescan: whether the running or last scan was started on an object that had
\* been scanned before (history only; the program keeps no such flag).
VARIABLES channel_out, phase_ref, null_symbol_ixs, pc, ix, num_correlations,
          rows, cirs, warnings, rescan

vars == <<channel_out, phase_ref, null_symbol_ixs, pc, ix, num_correlations,
          rows, cirs, warnings, rescan>>

-----------------------------------------------------------------------------
(* numpy and Python primitives *)

Min(a, b) == IF a < b THEN a ELSE b
Max(a, b) == IF a > b THEN a ELSE b

\* np.abs of a sample
Abs(x) == IF x < 0 THEN -x ELSE x

RECURSIVE GCD(_, _)
GCD(a, b) == IF b = 0 THEN a ELSE GCD(b, a % b)

\* channel[a:b] for 0 <= a: Python clips a slice to the sequence
Slice(s, a, b) == SubSeq(s, a + 1, Min(b, Len(s)))

RECURSIVE SumSeq(_)
SumSeq(s) == IF s = <<>> THEN 0 ELSE Head(s) + SumSeq(Tail(s))

\* np.abs(s).sum()
AbsSum(s) == SumSeq([k \in 1..Len(s) |-> Abs(s[k])])

\* faulty variant: range(0, T_TF, N): the blocks searched run to the end of the frame
SearchOffsetsWholeFrame ==
    [k \in 1..((T_TF + N - 1) \div N) |-> (k - 1) * N]

\* range(0, T_TF-T_NULL, N), as the sequence of its values
SearchOffsets ==
    [k \in 1..((T_TF - T_NULL + N - 1) \div N) |-> (k - 1) * N]

\* channel_out_power: the summed magnitude of every searched block
ChannelOutPower(channel, start_ix) ==
    [k \in 1..Len(SearchOffsets) |->
        AbsSum(Slice(channel, start_ix + SearchOffsets[k],
                     start_ix + SearchOffsets[k] + T_NULL))]

\* ndarray.argmin(): the 0-based index of the first minimum
ArgMin(p) ==
    CHOOSE k \in 0..(Len(p) - 1) :
        /\ \A j \in 1..Len(p) : p[k + 1] <= p[j]
        /\ \A j \in 1..k : p[j] > p[k + 1]

\* faulty variant: the index of the minimum, not multiplied by the stride
TNullUnscaled(channel, start_ix) == ArgMin(ChannelOutPower(channel, start_ix))

\* t_null = N * channel_out_power.argmin()
TNull(channel, start_ix) == N * ArgMin(ChannelOutPower(channel, start_ix))

\* corr_start_ix = t_null + T_NULL - 50
CorrStartIx(t_null) == t_null + T_NULL - CORR_BACKOFF

\* faulty variant: a block of the expected length, whatever reference is loaded
CorrWindowExpectedLen(channel, ref, start_ix, t_null, i) ==
    Slice(channel, start_ix + CorrStartIx(t_null) + i,
          start_ix + CorrStartIx(t_null) + PHASE_REF_LEN + i)

\* the block of the channel correlated for delay i
CorrWindow(channel, ref, start_ix, t_null, i) ==
    Slice(channel, start_ix + CorrStartIx(t_null) + i,
          start_ix + CorrStartIx(t_null) + Len(ref) + i)

\* one past the last sample index the correlation bank of a frame asks for
CorrEnd(ref, start_ix, t_null) ==
    start_ix + CorrStartIx(t_null) + Len(ref) + (MAX_COMPONENT_DELAY - 1)

\* A fraction n/d (n >= 0, d > 0) in lowest terms
Frac(n, d) == [n |-> n \div GCD(n, d), d |-> d \div GCD(n, d)]

\* np.corrcoef(x, y)[0,1] for len(x) = len(y), squared. With m = len(x),
\* X = m*x - sum(x) and Y = m*y - sum(y) are the centred vectors times m, and
\* the coefficient is (X.Y) / sqrt((X.X)(Y.Y)); 0/0 (a constant block, or a
\* single sample) is nan.
CorrCoefSq(x, y) ==
    LET m == Len(x)
        sx == SumSeq(x)
        sy == SumSeq(y)
        X == [k \in 1..m |-> m * x[k] - sx]
        Y == [k \in 1..m |-> m * y[k] - sy]
        Sxy == SumSeq([k \in 1..m |-> X[k] * Y[k]])
        Sxx == SumSeq([k \in 1..m |-> X[k] * X[k]])
        Syy == SumSeq([k \in 1..m |-> Y[k] * Y[k]])
    IN  IF Sxx * Syy = 0 THEN NaN ELSE Frac(Sxy * Sxy, Sxx * Syy)

\* faulty variant: a correlation that takes a clipped block as it is
CorrNeverRaises(channel, ref, start_ix, t_null) == FALSE

\* np.corrcoef raises ValueError when the two vectors differ in length
CorrRaises(channel, ref, start_ix, t_null) ==
    \E i \in 0..(MAX_COMPONENT_DELAY - 1) :
        Len(CorrWindow(channel, ref, start_ix, t_null, i)) # Len(ref)

\* cir: np.abs(np.corrcoef(block, phase_ref)[0,1]) for every delay (squared)
Cir(channel, ref, start_ix, t_null) ==
    [d \in 1..MAX_COMPONENT_DELAY |->
        CorrCoefSq(CorrWindow(channel, ref, start_ix, t_null, d - 1), ref)]

\* faulty variant: the power of the whole recording
ChannelPowerWholeRecording(channel, start_ix) == AbsSum(channel)

\* channel_power = np.abs(channel[start_ix:start_ix+T_TF]).sum()
ChannelPower(channel, start_ix) ==
    AbsSum(Slice(channel, start_ix, start_ix + T_TF))

\* one value of cir / channel_power (squared): x/0 is inf, 0/0 and nan/p are nan
Normalise(c, power) ==
    IF c = NaN THEN NaN
    ELSE IF power = 0 THEN (IF c.n = 0 THEN NaN ELSE Inf)
    ELSE Frac(c.n, c.d * power * power)

\* cir / channel_power, for the offset t_null found
CirOverPower(channel, ref, start_ix, t_null) ==
    LET cir == Cir(channel, ref, start_ix, t_null)
        channel_power == ChannelPower(channel, start_ix)
    IN  [d \in 1..MAX_COMPONENT_DELAY |-> Normalise(cir[d], channel_power)]

\* the value calc_one_cir_ returns when np.corrcoef does not raise
CirRow(channel, ref, start_ix) ==
    CirOverPower(channel, ref, start_ix, TNull(channel, start_ix))

\* faulty variant: a trailing partial frame counted as a frame
NumCorrelationsCeil(channel) == (Len(channel) + T_TF - 1) \div T_TF

\* num_correlations = int(len(self.channel_out) / T_TF)
NumCorrelations(channel) == Len(channel) \div T_TF

\* faulty variant: the offsets of earlier scans kept
KeptIxs(log) == log

\* self.null_symbol_ixs = []
ClearedIxs(log) == <<>>

\* the warning of a phase reference of unexpected length
PhaseRefWarns(ref) == Len(ref) # PHASE_REF_LEN

-----------------------------------------------------------------------------
(* the object after __init__ *)

Init ==
    /\ channel_out \in Recordings
    /\ phase_ref \in PhaseRefs
    /\ null_symbol_ixs = <<>>
    /\ pc = "idle"
    /\ ix = 0
    /\ num_correlations = 0
    /\ rows = <<>>
    /\ cirs = NoMatrix
    /\ warnings = 0
    /\ rescan = FALSE

\* plot(), up to the first frame: can be called on the object at any time
\* no scan is running (an exception leaves the object usable).
PlotStart ==
    /\ pc \in {"idle", "done", "error"}
    /\ num_correlations' = NumCorrelations(channel_out)
    /\ null_symbol_ixs' = ClearedIxs(null_symbol_ixs)
    /\ rows' = <<>>
    /\ cirs' = NoMatrix
    /\ ix' = 0
    /\ warnings' = 0
    /\ pc' = "scan"
    /\ rescan' = (pc # "idle")
    /\ UNCHANGED <<channel_out, phase_ref>>

\* one call calc_one_cir_(i * T_TF) of the comprehension in plot()
CalcOneCir ==
    /\ pc = "scan"
    /\ ix < num_correlations
    /\ LET start_ix == ix * T_TF
           t_null == TNull(channel_out, start_ix)
       IN  /\ null_symbol_ixs' = Append(null_symbol_ixs, t_null)
           /\ warnings' = IF PhaseRefWarns(phase_ref)
                          THEN warnings + 1 ELSE warnings
           /\ IF CorrRaises(channel_out, phase_ref, start_ix, t_null)
              THEN \* ValueError leaves plot(): its locals are gone
                   /\ pc' = "error"
                   /\ rows' = <<>>
                   /\ UNCHANGED ix
              ELSE /\ rows' = Append(rows,
                                  CirRow(channel_out, phase_ref, start_ix))
                   /\ ix' = ix + 1
                   /\ pc' = "scan"
    /\ UNCHANGED <<channel_out, phase_ref, num_correlations, cirs, rescan>>

\* cirs = np.array([...]) once the comprehension is exhausted
PlotFinish ==
    /\ pc = "scan"
    /\ ix = num_correlations
    /\ cirs' = rows
    /\ pc' = "done"
    /\ UNCHANGED <<channel_out, phase_ref, null_symbol_ixs, ix,
                   num_correlations, rows, warnings, rescan>>

Next == PlotStart \/ CalcOneCir \/ PlotFinish

Spec == Init /\ [][Next]_vars

-----------------------------------------------------------------------------
(* properties *)

\* the start index of the frame whose offset is entry j of null_symbol_ixs
FrameStart(j) == (j - 1) * T_TF

\* the number of whole frames of the recording, by its length alone
WholeFrames == Len(channel_out) \div T_TF

\* C1: a scan calls calc_one_cir_ at most floor(L / T_TF) times, and a scan
\* that completes has called it exactly floor(L / T_TF) times and built a
\* matrix of exactly that many rows: a trailing partial frame gives no row.
C1_RowCount ==
    /\ Len(null_symbol_ixs) <= WholeFrames
    /\ Len(rows) <= WholeFrames
    /\ pc = "done" => /\ Len(cirs) = WholeFrames
                      /\ Len(null_symbol_ixs) = WholeFrames

C1_Witness ==
    /\ pc = "done"
    /\ Len(channel_out) % T_TF # 0
    /\ Len(cirs) = 2

\* C2: every offset appended to null_symbol_ixs is an integer t with
\* 0 <= t < T_TF - T_NULL, whatever the samples are.
C2_OffsetInRange ==
    \A j \in 1..Len(null_symbol_ixs) :
        null_symbol_ixs[j] \in 0..(T_TF - T_NULL - 1)

C2_Witness ==
    /\ Len(null_symbol_ixs) = 2
    /\ null_symbol_ixs[1] = 0
    /\ null_symbol_ixs[2] = N * ((T_TF - T_NULL - 1) \div N)

\* C3: entry k of null_symbol_ixs is the offset found for the frame that
\* starts at k * T_TF, also when the object was scanned before, and a scan
\* that completes leaves exactly one entry per whole frame.
C3_LogOfLastScan ==
    /\ \A j \in 1..Len(null_symbol_ixs) :
           null_symbol_ixs[j] = TNull(channel_out, FrameStart(j))
    /\ Len(null_symbol_ixs) <= WholeFrames
    /\ pc = "done" => Len(null_symbol_ixs) = WholeFrames

C3_Witness ==
    /\ rescan
    /\ pc = "done"
    /\ Len(null_symbol_ixs) = 2
    /\ null_symbol_ixs[1] # null_symbol_ixs[2]

\* the frame at start_ix holds only zeros at the frame-relative offsets
\* p .. p + T_NULL - 1
ZeroWindowAt(start_ix, p) ==
    \A q \in p..(p + T_NULL - 1) : channel_out[start_ix + q + 1] = 0

\* the frame-relative offsets of the frame outside that window
OutsideWindow(p) == (0..(T_TF - 1)) \ (p..(p + T_NULL - 1))

OutsideNonZero(start_ix, p) ==
    \A q \in OutsideWindow(p) : channel_out[start_ix + q + 1] # 0

OutsideUniform(start_ix, p) ==
    \A q, r \in OutsideWindow(p) :
        Abs(channel_out[start_ix + q + 1]) = Abs(channel_out[start_ix + r + 1])

Aligned(p) == p % N = 0 /\ p < T_TF - T_NULL

\* C4, as claimed: whenever a frame holds an all-zero window of length T_NULL
\* at offset p, the offset found differs from p by at most N.
C4_AsClaimed ==
    \A j \in 1..Len(null_symbol_ixs) : \A p \in 0..(T_TF - T_NULL) :
        ZeroWindowAt(FrameStart(j), p)
            => Abs(null_symbol_ixs[j] - p) <= N

\* C4, amended: when the samples of the frame outside the all-zero window are
\* all nonzero, the offset found is p itself if p is one of the searched
\* offsets, and differs from p by at most N if the samples outside the
\* window all have the same magnitude.
C4_Amended ==
    \A j \in 1..Len(null_symbol_ixs) : \A p \in 0..(T_TF - T_NULL) :
        ZeroWindowAt(FrameStart(j), p) /\ OutsideNonZero(FrameStart(j), p)
            => /\ Aligned(p) => null_symbol_ixs[j] = p
               /\ OutsideUniform(FrameStart(j), p)
                      => Abs(null_symbol_ixs[j] - p) <= N

C4_Witness ==
    \E j \in 1..Len(null_symbol_ixs) : \E p \in 0..(T_TF - T_NULL) :
        /\ ZeroWindowAt(FrameStart(j), p)
        /\ OutsideNonZero(FrameStart(j), p)
        /\ OutsideUniform(FrameStart(j), p)
        /\ ~Aligned(p)
        /\ null_symbol_ixs[j] # p
        /\ Abs(channel_out[FrameStart(j) + 1]) = 2

\* every sample of the recording multiplied by c
Scaled(channel, c) == [k \in 1..Len(channel) |-> c * channel[k]]

\* C5: the row of every frame is the row the same frame gives when every
\* sample of the recording is multiplied by 2.
C5_ScaleInvariant ==
    \A j \in 1..Len(rows) :
        CirRow(Scaled(channel_out, 2), phase_ref, FrameStart(j)) = rows[j]

\* the recording with the sample at index q (1-based) replaced by another one
Altered(channel, q) ==
    [channel EXCEPT ![q] = IF @ = 2 THEN -1 ELSE @ + 1]

\* what calc_one_cir_ does for a frame: the offset it appends, whether it
\* raises, and the row it returns if it does not
FrameResult(channel, ref, start_ix) ==
    LET t_null == TNull(channel, start_ix)
        raises == CorrRaises(channel, ref, start_ix, t_null)
    IN  <<t_null, raises,
          IF raises THEN <<>>
          ELSE CirOverPower(channel, ref, start_ix, t_null)>>

\* the frames calc_one_cir_ has been called for, by their 1-based number
Called == 1..Len(null_symbol_ixs)

\* the frame of the last call of calc_one_cir_, if there was one
LastCalled == IF null_symbol_ixs = <<>> THEN {} ELSE {Len(null_symbol_ixs)}

\* what the last call did, as the state records it
Recorded(j) ==
    <<null_symbol_ixs[j], pc = "error",
      IF pc = "error" THEN <<>> ELSE rows[j]>>

\* one past the last index the result of frame j can depend on: the end of
\* the frame, or of its correlation bank if that reaches further
DependEnd(j) ==
    Max(FrameStart(j) + T_TF,
        CorrEnd(phase_ref, FrameStart(j), null_symbol_ixs[j]))

\* C6, as claimed: the result of a frame is the same for every recording that
\* differs in one sample outside the frame's window, and the correlation
\* bank reads no sample outside the frame's window (stated for the phase
\* reference of the expected length alone).
C6_AsClaimed ==
    \A j \in LastCalled :
      Len(phase_ref) = PHASE_REF_LEN =>
        /\ \A q \in 1..Len(channel_out) :
               (q <= FrameStart(j) \/ q > FrameStart(j) + T_TF)
                   => FrameResult(Altered(channel_out, q), phase_ref,
                                  FrameStart(j)) = Recorded(j)
        /\ Min(CorrEnd(phase_ref, FrameStart(j), null_symbol_ixs[j]),
               Len(channel_out)) <= FrameStart(j) + T_TF

\* C6, amended: the offset of a frame depends only on the frame's window; its
\* row depends only on the samples from the frame's start to the end of the
\* frame or of its correlation bank, whichever is later. The bank starts
\* inside the frame, stays inside it when the offset found is at most
\* T_TF - (T_NULL - CORR_BACKOFF + MAX_COMPONENT_DELAY - 1 + len(phase_ref)),
\* and otherwise ends in the next frame's window.
C6_Amended ==
    \A j \in LastCalled :
        /\ \A q \in (FrameStart(j) + T_TF + 1)..Min(DependEnd(j), Len(channel_out)) :
               TNull(Altered(channel_out, q), FrameStart(j)) = null_symbol_ixs[j]
        /\ \A q \in 1..Len(channel_out) :
               (q <= FrameStart(j) \/ q > DependEnd(j))
                   => FrameResult(Altered(channel_out, q), phase_ref,
                                  FrameStart(j)) = Recorded(j)
        /\ CorrStartIx(null_symbol_ixs[j]) \in 0..(T_TF - 1)
        /\ null_symbol_ixs[j] <= T_TF - (T_NULL - CORR_BACKOFF
                                  + MAX_COMPONENT_DELAY - 1 + Len(phase_ref))
               <=> CorrEnd(phase_ref, FrameStart(j), null_symbol_ixs[j])
                       <= FrameStart(j) + T_TF
        /\ CorrEnd(phase_ref, FrameStart(j), null_symbol_ixs[j])
               <= FrameStart(j) + 2 * T_TF

\* a frame whose row changes with a sample of the next frame's window
C6_Witness ==
    \E j \in LastCalled :
        /\ pc = "scan"
        /\ \E q \in (FrameStart(j) + T_TF + 1)..Min(DependEnd(j), Len(channel_out)) :
               CirRow(Altered(channel_out, q), phase_ref, FrameStart(j)) # rows[j]

\* C7: a frame whose correlation bank would end past the end of the
\* recording ends the scan with the exception: it is the last frame called,
\* no row is returned for it and no matrix is bound.
C7_AbortOnOverrun ==
    \A j \in Called :
        CorrEnd(phase_ref, FrameStart(j), null_symbol_ixs[j]) > Len(channel_out)
            => /\ pc = "error"
               /\ j = Len(null_symbol_ixs)
               /\ rows = <<>>
               /\ cirs = NoMatrix

C7_Witness ==
    /\ pc = "error"
    /\ Len(null_symbol_ixs) = 2
    /\ CorrEnd(phase_ref, FrameStart(2), null_symbol_ixs[2]) > Len(channel_out)

\* C8: a recording shorter than one frame never gives a completed scan.
C8_ShortRejected ==
    Len(channel_out) < T_TF => pc # "done"

\* C9: no row is ever returned for a frame whose channel power is zero.
C9_ZeroPowerFails ==
    \A j \in 1..Len(rows) : ChannelPower(channel_out, FrameStart(j)) # 0

\* C10: with a phase reference of unexpected length every frame called gives
\* one warning; the scan ends with the exception only where the correlation
\* bank, of blocks of the loaded length, would end past the recording; every
\* row has MAX_COMPONENT_DELAY values, and a completed scan has one row and
\* one offset per whole frame.
C10_LengthMismatchNotFatal ==
    Len(phase_ref) # PHASE_REF_LEN
        => /\ warnings = Len(null_symbol_ixs)
           /\ pc = "error"
                  => CorrEnd(phase_ref, FrameStart(Len(null_symbol_ixs)),
                             null_symbol_ixs[Len(null_symbol_ixs)])
                         > Len(channel_out)
           /\ \A j \in 1..Len(rows) : Len(rows[j]) = MAX_COMPONENT_DELAY
           /\ pc = "done" => /\ Len(cirs) = WholeFrames
                             /\ Len(null_symbol_ixs) = WholeFrames
                             /\ \A j \in 1..Len(cirs) :
                                    Len(cirs[j]) = MAX_COMPONENT_DELAY

C10_Witness ==
    /\ Len(phase_ref) > PHASE_REF_LEN
    /\ pc = "done"
    /\ Len(cirs) = 2
    /\ warnings = 2

=============================================================================
